---- MODULE Spec2Model ----
(***************************************************************************)
(* Model of hot_fair_utilities/inference/predict.py: predict() globs the   *)
(* input tiles, slices them into batches of BATCH_SIZE, runs process_batch *)
(* for every batch on a thread pool, joins, georeferences the prediction   *)
(* directory and removes the *.xml and *.png files from it.                *)
(*                                                                         *)
(* A file name is a record [dot, stem, ext] (dot: the name starts with a   *)
(* dot); a path is [dir, name]; a directory is a function from the names   *)
(* it holds to their contents; a content is a record [kind, px], one       *)
(* representative pixel per raster.                                        *)
(*                                                                         *)
(* Identity of the tiles.  predict never sorts, compares or parses a file  *)
(* name: glob hands the names over in the order of the directory scan,     *)
(* line 37 copies the stem of a listed path into the name of its mask, and *)
(* the patterns *.png and *.xml look at the suffix and the leading dot.    *)
(* A run is therefore the same run under any renaming of the tiles, and    *)
(* the model names a tile by its place in the directory scan: the stem k   *)
(* stands for the k-th tile the scan of input_path yields, whatever the    *)
(* file is called on disk.  The directory 1.png .. 7.png that the scan     *)
(* yields as 6, 3, 4, 7, 2, 1, 5 is the state with seven tiles under the   *)
(* renaming 6 -> 1, 3 -> 2, 4 -> 3, 7 -> 4, 2 -> 5, 1 -> 6, 5 -> 7; the    *)
(* one state with n tiles stands for every scan order of every n distinct  *)
(* names.  The stem 0 is a name that is no tile's.                         *)
(***************************************************************************)
EXTENDS Integers, Sequences, FiniteSets, TLC

\* Bounds of the model.
MaxN == 17          \* most tiles glob finds in the input directory: two full batches and one more
MaxClasses == 3     \* most classes of a score vector
MaxScore == 3       \* largest score

\* predict.py:15
BATCH_SIZE == 8

VARIABLES
    pc,               \* position of the thread that called predict
    fs,               \* the filesystem: directory -> (name -> content)
    fs0,              \* history: the filesystem when predict was called
    prediction_path,  \* argument of predict
    prediction_kind,  \* what prediction_path is on disk: "dir", "absent" or "file"
    checkpoint_path,  \* argument of predict: the checkpoint load_model reads
    scandir,          \* the names of input_path the directory scan of glob (line 71) is
                      \* about to yield, in its order; empty once glob has listed them
    max_workers,      \* size of the ThreadPoolExecutor (left to the platform)
    unwritable,       \* names in prediction_path for which save_mask raises
    model,            \* the loaded checkpoint
    image_paths,      \* glob result
    n_batches,
    i,                \* loop variable of the submit loop
    futures,          \* one record per submitted process_batch task
    written,          \* history: the save_mask calls that succeeded, [task, dir, name]
    georef_calls,     \* history: number of georeference invocations
    scores,           \* one pixel's class scores (binarization specification)
    pixel             \* that pixel's mask value, -1 before it is computed

vars == <<pc, fs, fs0, checkpoint_path, prediction_path, prediction_kind, scandir, max_workers, unwritable,
          model, image_paths, n_batches, i, futures, written, georef_calls,
          scores, pixel>>

predictVars == <<pc, fs, fs0, checkpoint_path, prediction_path, prediction_kind, scandir, max_workers,
                 unwritable, model, image_paths, n_batches, i, futures, written,
                 georef_calls>>

----------------------------------------------------------------------------
\* Files, paths, directories.

input_path == "in"
Dirs == {"in", "out"}

Name(stem, ext) == [dot |-> FALSE, stem |-> stem, ext |-> ext]
DotName(stem, ext) == [dot |-> TRUE, stem |-> stem, ext |-> ext]
Path(dir, name) == [dir |-> dir, name |-> name]

\* The shape images.reshape(-1, 256, 256, 3) gives every row (predict.py:27).
TileShape == [h |-> 256, w |-> 256, c |-> 3]

\* Other shapes a .png decodes to: a larger tile, a tile with an alpha channel,
\* a smaller tile.
LargeShape == [h |-> 512, w |-> 512, c |-> 3]
OtherShapes == {LargeShape, [h |-> 256, w |-> 256, c |-> 4], [h |-> 128, w |-> 128, c |-> 3]}

Elements(shape) == shape.h * shape.w * shape.c

ShapedTile(v, shape) == [kind |-> "tile", px |-> v, shape |-> shape]
Tile(v) == ShapedTile(v, TileShape)
Corrupt == [kind |-> "corrupt", px |-> -1]
Stale == [kind |-> "stale", px |-> -1]
Mask(bit) == [kind |-> "mask", px |-> bit]
GeoRaster(px) == [kind |-> "georaster", px |-> px]
Sidecar == [kind |-> "sidecar", px |-> -1]

\* Files a previous run may have left in the prediction directory: 0.png,
\* 0.xml, the hidden .0.png, and a mask under the name of the first tile's.
StaleNames == {Name(0, "png"), Name(0, "xml"), DotName(0, "png"), Name(1, "png")}

\* A file among the tiles in the input directory: the hidden tile .0.png.
ClutterNames == {DotName(0, "png")}

EmptyDir == [n \in {} |-> Stale]

\* fnmatch of a name against "*.{ext}": the star does not match a leading dot,
\* so hidden names are not matched.
Matches(n, ext) == n.ext = ext /\ ~n.dot

\* glob(f"{dir}/*.{ext}") as a set: the names of the directory the pattern matches.
Glob(d, ext) == {n \in DOMAIN d : Matches(n, ext)}

\* glob(f"{dir}/*.png") as the list predict slices: the matching names in the
\* order the directory scan yields them, unsorted.
Listing(dir, order) ==
    LET IsPng(n) == Matches(n, "png")
        listed == SelectSeq(order, IsPng)
    IN  [k \in 1..Len(listed) |-> Path(dir, listed[k])]

\* Path(path).stem: the name without its last suffix; a leading dot belongs
\* to the stem.
Stem(path) == [dot |-> path.name.dot, stem |-> path.name.stem]

\* f"{stem}.{ext}"
StemName(st, ext) == [dot |-> st.dot, stem |-> st.stem, ext |-> ext]

WriteFile(d, name, data) ==
    [n \in DOMAIN d \cup {name} |-> IF n = name THEN data ELSE d[n]]

\* remove_files(pattern): os.remove on every name glob(pattern) lists.
RemoveFiles(d, ext) == [n \in DOMAIN d \ Glob(d, ext) |-> d[n]]

\* os.scandir on a directory holding n tiles: the tiles in the order the scan
\* yields them, the k-th under the stem k.
ScanOrder(n) == [k \in 1..n |-> Name(k, "png")]

----------------------------------------------------------------------------
\* Inference on one pixel.

ScoreVectors == UNION {[1..c -> 0..MaxScore] : c \in 1..MaxClasses}

\* The checkpoints predict is called on: one whose model predicts, and one
\* whose model raises in model.predict.
CheckpointPaths == {"sound", "raising"}

\* keras.models.load_model(checkpoint_path): the model is a table of score
\* vectors, indexed by the tile's pixel value, of three classes.
LoadModel(path) ==
    [raises |-> path = "raising",
     table |-> << <<0, 0, 1>>, <<1, 1, 0>>, <<0, 2, 2>> >>]

\* model.predict(images), for one pixel
ModelPredict(m, v) == m.table[(v % Len(m.table)) + 1]

RECURSIVE ArgMaxLastFrom(_, _, _)
ArgMaxLastFrom(s, k, best) ==
    IF k > Len(s) THEN best - 1
    ELSE ArgMaxLastFrom(s, k + 1, IF s[k] >= s[best] THEN k ELSE best)

ArgMaxLast(s) == ArgMaxLastFrom(s, 2, 1)

\* np.argmax(preds, axis=-1): the 0-based index of the first maximum.
RECURSIVE ArgMaxFrom(_, _, _)
ArgMaxFrom(s, k, best) ==
    IF k > Len(s) THEN best - 1
    ELSE ArgMaxFrom(s, k + 1, IF s[k] > s[best] THEN k ELSE best)

ArgMax(s) == ArgMaxFrom(s, 2, 1)

\* np.where(preds > 0.5, 1, 0) on an integer class index
Threshold(c) == IF 2 * c > 1 THEN 1 ELSE 0

Binarize(s) == Threshold(ArgMax(s))

----------------------------------------------------------------------------
\* Batching.

NBatchesFloor(n) == n \div BATCH_SIZE

\* math.ceil(len(image_paths) / BATCH_SIZE)
NBatches(n) == (n + BATCH_SIZE - 1) \div BATCH_SIZE

BatchSliceShort(paths, k) ==
    IF BATCH_SIZE * k >= Len(paths) THEN <<>>
    ELSE SubSeq(paths, BATCH_SIZE * k + 1,
                IF BATCH_SIZE * (k + 1) - 1 < Len(paths)
                THEN BATCH_SIZE * (k + 1) - 1 ELSE Len(paths))

\* image_paths[BATCH_SIZE * k : BATCH_SIZE * (k + 1)], k counted from 0
BatchSlice(paths, k) ==
    IF BATCH_SIZE * k >= Len(paths) THEN <<>>
    ELSE SubSeq(paths, BATCH_SIZE * k + 1,
                IF BATCH_SIZE * (k + 1) < Len(paths)
                THEN BATCH_SIZE * (k + 1) ELSE Len(paths))

MaskPathByIndex(dir, idx, path) == Path(dir, Name(idx, "png"))

MaskPathBesideInput(dir, idx, path) == Path(path.dir, StemName(Stem(path), "png"))

\* f"{prediction_path}/{Path(path).stem}.png", idx counted from 0
MaskPath(dir, idx, path) == Path(dir, StemName(Stem(path), "png"))

AnyCompleted == \E b \in 1..Len(futures) : futures[b].state = "finished"

\* concurrent.futures.wait(futures) and the executor's shutdown(wait=True)
AllCompleted == \A b \in 1..Len(futures) : futures[b].state = "finished"

Running == {b \in 1..Len(futures) : futures[b].state = "running"}

\* The pool sizes: one worker, and the smallest default of ThreadPoolExecutor(),
\* min(32, cpu_count + 4).
PoolSizes == {1, 5}

----------------------------------------------------------------------------
\* The state when predict is called.

IdlePixel == scores = <<>> /\ pixel = -1

\* The sequence s with x put in after its first k entries.
InsertAt(s, k, x) == SubSeq(s, 1, k) \o <<x>> \o SubSeq(s, k + 1, Len(s))

\* The orders in which a directory scan yields n tiles and, at any place among
\* them, the hidden tile .0.png.
ClutteredScanOrders(n) == {InsertAt(ScanOrder(n), a, DotName(0, "png")) : a \in 0..n}

\* At most one thing of the run is out of the ordinary: a tile that cannot be
\* decoded, a tile of another shape than its neighbours, tiles that all have
\* another shape than 256 x 256 x 3, a mask that cannot be written, or a model
\* whose predict raises.
Faults(n) ==
    {[kind |-> "none", stem |-> 0, shape |-> TileShape]}
    \cup {[kind |-> k, stem |-> s, shape |-> TileShape] : k \in {"decode", "write"}, s \in 1..n}
    \cup {[kind |-> "shape", stem |-> s, shape |-> LargeShape] : s \in 1..n}
    \cup {[kind |-> "shapes", stem |-> 0, shape |-> sh] : sh \in OtherShapes}
    \cup {[kind |-> "predict", stem |-> 0, shape |-> TileShape]}

\* predict is called on an input directory of n tiles, with prediction_path
\* the input directory itself or another one; the other one exists, does not
\* exist yet, or is a regular file; when it exists it is empty, or it holds what
\* a previous run left while the input directory holds a hidden tile among its
\* tiles.  Any of the faults goes with any of the directories.
Init ==
    \E n \in 0..MaxN, pp \in Dirs, clutter \in BOOLEAN, fault \in Faults(MaxN),
       kind \in {"dir", "absent", "file"} :
        /\ scandir \in IF clutter THEN ClutteredScanOrders(n) ELSE {ScanOrder(n)}
        /\ fault.stem <= n
        /\ kind # "dir" => (pp # input_path /\ ~clutter)
        /\ clutter => pp # input_path
        /\ kind = "file" => fault.kind = "none"
        /\ checkpoint_path = IF fault.kind = "predict" THEN "raising" ELSE "sound"
        /\ prediction_path = pp
        /\ prediction_kind = kind
        /\ fs = [d \in Dirs |->
                    IF d = input_path
                    THEN [nm \in {Name(s, "png") : s \in 1..n}
                                 \cup (IF clutter THEN ClutterNames ELSE {}) |->
                            IF nm \in ClutterNames THEN Tile(0)
                            ELSE IF fault.kind = "decode" /\ nm.stem = fault.stem
                                 THEN Corrupt
                                 ELSE IF fault.kind = "shapes"
                                         \/ (fault.kind = "shape" /\ nm.stem = fault.stem)
                                      THEN ShapedTile(nm.stem, fault.shape)
                                      ELSE Tile(nm.stem)]
                    ELSE [nm \in (IF clutter THEN StaleNames ELSE {}) |-> Stale]]
        /\ fs0 = fs
        /\ unwritable = IF fault.kind = "write" THEN {Name(fault.stem, "png")} ELSE {}
        /\ max_workers \in PoolSizes
        /\ pc = "start"
        /\ model = <<>>
        /\ image_paths = <<>>
        /\ n_batches = 0
        /\ i = 0
        /\ futures = <<>>
        /\ written = {}
        /\ georef_calls = 0
        /\ IdlePixel

----------------------------------------------------------------------------
\* predict, the calling thread.

\* predict.py:64-72: load the model, make the directory, glob, count batches;
\* load_model raises on a checkpoint it cannot load, os.makedirs when
\* prediction_path is a regular file
Start ==
    /\ pc = "start"
    /\ \/ /\ pc' = "aborted"
          /\ UNCHANGED <<model, prediction_kind, scandir, image_paths, n_batches>>
       \/ /\ prediction_kind = "file"
          /\ model' = LoadModel(checkpoint_path)
          /\ pc' = "aborted"
          /\ UNCHANGED <<prediction_kind, scandir, image_paths, n_batches>>
       \/ /\ prediction_kind # "file"
          /\ model' = LoadModel(checkpoint_path)
          /\ prediction_kind' = "dir"
          /\ scandir' = <<>>
          /\ LET listing == Listing(input_path, scandir)
             IN  /\ image_paths' = listing
                 /\ n_batches' = NBatches(Len(listing))
                 /\ pc' = IF NBatches(Len(listing)) = 0 THEN "wait" ELSE "submit"
    /\ i' = 0
    /\ UNCHANGED <<fs, fs0, checkpoint_path, prediction_path, max_workers, unwritable,
                   futures, written, georef_calls, scores, pixel>>

\* predict.py:76-80: one iteration of the submit loop
Submit ==
    /\ pc = "submit"
    /\ i < n_batches
    /\ futures' = Append(futures,
                         [batch |-> BatchSlice(image_paths, i),
                          state |-> "pending",
                          exc |-> FALSE,
                          images |-> <<>>,
                          preds |-> <<>>,
                          idx |-> 0])
    /\ i' = i + 1
    /\ pc' = IF i + 1 = n_batches THEN "wait" ELSE "submit"
    /\ UNCHANGED <<fs, fs0, checkpoint_path, prediction_path, prediction_kind, scandir, max_workers,
                   unwritable, model, image_paths, n_batches, written,
                   georef_calls, scores, pixel>>

\* predict.py:82 and the end of the with block: block until every future is
\* done; no future's result() is asked for, so a stored exception stays stored
WaitAll ==
    /\ pc = "wait"
    /\ AllCompleted
    /\ pc' = "georef"
    /\ UNCHANGED <<fs, fs0, checkpoint_path, prediction_path, prediction_kind, scandir, max_workers,
                   unwritable, model, image_paths, n_batches, i, futures, written,
                   georef_calls, scores, pixel>>

\* georeference(prediction_path, prediction_path, is_mask=True): every *.png
\* glob lists in the directory is rewritten in place, under its own name, as a
\* georeferenced raster, and gets an .xml sidecar
Georeferenced(d) ==
    LET pngs == Glob(d, "png")
        xmls == {Name(n.stem, "xml") : n \in pngs}
    IN  [n \in DOMAIN d \cup xmls |->
            IF n \in pngs THEN GeoRaster(d[n].px)
            ELSE IF n \in xmls THEN Sidecar
            ELSE d[n]]

\* predict.py:86
Georeference ==
    /\ pc = "georef"
    /\ georef_calls' = georef_calls + 1
    /\ \/ /\ fs' = [fs EXCEPT ![prediction_path] = Georeferenced(@)]
          /\ pc' = "rm_xml"
       \/ /\ fs' = fs
          /\ pc' = "raised"
    /\ UNCHANGED <<fs0, checkpoint_path, prediction_path, prediction_kind, scandir, max_workers, unwritable,
                   model, image_paths, n_batches, i, futures, written, scores, pixel>>

RemovePngFirst ==
    /\ pc = "rm_xml"
    /\ fs' = [fs EXCEPT ![prediction_path] = RemoveFiles(@, "png")]
    /\ pc' = "rm_png"
    /\ UNCHANGED <<fs0, checkpoint_path, prediction_path, prediction_kind, scandir, max_workers, unwritable,
                   model, image_paths, n_batches, i, futures, written,
                   georef_calls, scores, pixel>>

\* predict.py:90
RemoveXml ==
    /\ pc = "rm_xml"
    /\ fs' = [fs EXCEPT ![prediction_path] = RemoveFiles(@, "xml")]
    /\ pc' = "rm_png"
    /\ UNCHANGED <<fs0, checkpoint_path, prediction_path, prediction_kind, scandir, max_workers, unwritable,
                   model, image_paths, n_batches, i, futures, written,
                   georef_calls, scores, pixel>>

RemovePngSkipped ==
    /\ pc = "rm_png"
    /\ fs' = fs
    /\ pc' = "done"
    /\ UNCHANGED <<fs0, checkpoint_path, prediction_path, prediction_kind, scandir, max_workers, unwritable,
                   model, image_paths, n_batches, i, futures, written,
                   georef_calls, scores, pixel>>

RemoveOwnMasks ==
    /\ pc = "rm_png"
    /\ fs' = [fs EXCEPT ![prediction_path] =
                [n \in DOMAIN @ \ {w.name : w \in written} |-> @[n]]]
    /\ pc' = "done"
    /\ UNCHANGED <<fs0, checkpoint_path, prediction_path, prediction_kind, scandir, max_workers, unwritable,
                   model, image_paths, n_batches, i, futures, written,
                   georef_calls, scores, pixel>>

\* predict.py:91
RemovePng ==
    /\ pc = "rm_png"
    /\ fs' = [fs EXCEPT ![prediction_path] = RemoveFiles(@, "png")]
    /\ pc' = "done"
    /\ UNCHANGED <<fs0, checkpoint_path, prediction_path, prediction_kind, scandir, max_workers, unwritable,
                   model, image_paths, n_batches, i, futures, written,
                   georef_calls, scores, pixel>>

----------------------------------------------------------------------------
\* process_batch, on a worker thread.

taskFrame == <<pc, fs0, checkpoint_path, prediction_path, prediction_kind, scandir, max_workers, unwritable,
               model, image_paths, n_batches, i, georef_calls, scores, pixel>>

\* predict.py:79: a worker has taken the task from the queue and its future
\* becomes RUNNING; the queue is first-in first-out, so the pending tasks
\* before this one are each held by another worker
TakeTask(b) ==
    /\ futures[b].state = "pending"
    /\ Cardinality(Running)
         + Cardinality({c \in 1..(b - 1) : futures[c].state = "pending"}) < max_workers
    /\ futures' = [futures EXCEPT ![b].state = "running"]
    /\ UNCHANGED <<fs, written, taskFrame>>

\* predict.py:26: open_images reads the next tile of the batch, and raises on
\* one that cannot be decoded; the task ends with the exception in its future
OpenImage(b) ==
    /\ futures[b].state = "running"
    /\ Len(futures[b].images) < Len(futures[b].batch)
    /\ LET p == futures[b].batch[Len(futures[b].images) + 1]
           data == fs[p.dir][p.name]
       IN  IF data.kind = "corrupt"
           THEN futures' = [futures EXCEPT ![b].state = "finished", ![b].exc = TRUE]
           ELSE futures' = [futures EXCEPT ![b].images = Append(@, data)]
    /\ UNCHANGED <<fs, written, taskFrame>>

\* The images open_images read stack into one array when they all have one
\* shape.
Stackable(images) == \A k \in 1..Len(images) : images[k].shape = images[1].shape

\* images.reshape(-1, 256, 256, 3) raises unless the array's elements fill a
\* whole number of rows of 256 x 256 x 3.
Reshapable(images) ==
    /\ Stackable(images)
    /\ (Len(images) * Elements(images[1].shape)) % Elements(TileShape) = 0

\* The number of rows the reshape yields.
Rows(images) == (Len(images) * Elements(images[1].shape)) \div Elements(TileShape)

\* The representative pixel of row r (from 1): the one of the image its first
\* element comes from.
RowPx(images, r) ==
    images[(((r - 1) * Elements(TileShape)) \div Elements(images[1].shape)) + 1].px

\* Lines 27-32 on the images of a batch: a mask bit per row.
Predictions(m, images) ==
    [r \in 1..Rows(images) |-> Binarize(ModelPredict(m, RowPx(images, r)))]

\* predict.py:27-32: reshape, model.predict, argmax, threshold; when reshape or
\* model.predict raises, the task ends with the exception in its future and has
\* written no mask
Infer(b) ==
    /\ futures[b].state = "running"
    /\ Len(futures[b].images) = Len(futures[b].batch)
    /\ futures[b].preds = <<>>
    /\ IF Reshapable(futures[b].images) /\ ~model.raises
       THEN futures' = [futures EXCEPT ![b].preds = Predictions(model, futures[b].images)]
       ELSE futures' = [futures EXCEPT ![b].state = "finished", ![b].exc = TRUE]
    /\ UNCHANGED <<fs, written, taskFrame>>

\* predict.py:34-38: one iteration of the save loop; preds[idx] raises when the
\* reshape gave fewer rows than the batch has paths, save_mask when the file
\* cannot be written
SaveMask(b) ==
    /\ futures[b].state = "running"
    /\ futures[b].preds # <<>>
    /\ futures[b].idx < Len(futures[b].batch)
    /\ LET idx == futures[b].idx
           target == MaskPath(prediction_path, idx, futures[b].batch[idx + 1])
       IN  IF idx + 1 > Len(futures[b].preds)
              \/ (target.dir = prediction_path /\ target.name \in unwritable)
           THEN /\ futures' = [futures EXCEPT ![b].state = "finished", ![b].exc = TRUE]
                /\ UNCHANGED <<fs, written>>
           ELSE /\ fs' = [fs EXCEPT ![target.dir] =
                            WriteFile(@, target.name, Mask(futures[b].preds[idx + 1]))]
                /\ written' = written \cup
                       {[task |-> b, dir |-> target.dir, name |-> target.name]}
                /\ futures' = [futures EXCEPT ![b].idx = idx + 1]
    /\ UNCHANGED taskFrame

\* predict.py:39-40: the task returns
ReturnBatch(b) ==
    /\ futures[b].state = "running"
    /\ futures[b].preds # <<>>
    /\ futures[b].idx = Len(futures[b].batch)
    /\ futures' = [futures EXCEPT ![b].state = "finished"]
    /\ UNCHANGED <<fs, written, taskFrame>>

Next ==
    \/ Start
    \/ Submit
    \/ WaitAll
    \/ Georeference
    \/ RemoveXml
    \/ RemovePng
    \/ \E b \in 1..Len(futures) : TakeTask(b)
    \/ \E b \in 1..Len(futures) : OpenImage(b)
    \/ \E b \in 1..Len(futures) : Infer(b)
    \/ \E b \in 1..Len(futures) : SaveMask(b)
    \/ \E b \in 1..Len(futures) : ReturnBatch(b)

Spec == Init /\ [][Next]_vars

----------------------------------------------------------------------------
\* Binarization of one pixel, for every score vector within the bounds.

InitBinarize ==
    /\ scores \in ScoreVectors
    /\ pixel = -1
    /\ pc = "pixel"
    /\ fs = [d \in Dirs |-> EmptyDir]
    /\ fs0 = fs
    /\ prediction_path = "out"
    /\ prediction_kind = "dir"
    /\ checkpoint_path = "sound"
    /\ scandir = <<>>
    /\ max_workers = 1
    /\ unwritable = {}
    /\ model = <<>>
    /\ image_paths = <<>>
    /\ n_batches = 0
    /\ i = 0
    /\ futures = <<>>
    /\ written = {}
    /\ georef_calls = 0

\* predict.py:30-32 on the scores predict.py:29 returned
BinarizePixel ==
    /\ pc = "pixel"
    /\ pixel' = Binarize(scores)
    /\ UNCHANGED <<scores, predictVars>>

NextBinarize == BinarizePixel

SpecBinarize == InitBinarize /\ [][NextBinarize]_vars

----------------
\* Vocabulary of the properties.

\* The files of a directory with an extension whose names do not start with a dot.
Visible(d, ext) == {n \in DOMAIN d : ~n.dot /\ n.ext = ext}
InputNames == Visible(fs0[input_path], "png")
NoTaskFailed == \A b \in 1..Len(futures) : ~futures[b].exc
AllTilesValid == \A n \in InputNames : fs0[input_path][n] = Tile(n.stem)
PastJoin == pc \in {"georef", "rm_xml", "rm_png", "done", "raised"}
GeorefReturned == pc \in {"rm_xml", "rm_png", "done"}
Removed(d, e) == DOMAIN d \ DOMAIN e

\* C1: when every batch has completed without failure and georeferencing has
\* not started, process_batch has written exactly one mask per input tile into
\* prediction_path, named {stem}.png after it, and no mask under another name.
C1_MaskPerInput ==
    (pc = "georef" /\ NoTaskFailed) =>
        /\ \A w \in written : w.dir = prediction_path
        /\ {w.name : w \in written} = {Name(n.stem, "png") : n \in InputNames}
        /\ Cardinality(written) = Cardinality(InputNames)
        /\ \A w \in written : /\ w.name \in DOMAIN fs[prediction_path]
                              /\ fs[prediction_path][w.name].kind = "mask"

C1_Witness ==
    /\ pc = "georef"
    /\ NoTaskFailed
    /\ Len(futures) = 3
    /\ Cardinality(written) > 2 * BATCH_SIZE

\* C2: georeference is invoked at most once, only when every submitted batch
\* has finished, and no batch writes a mask once the join has been passed.
C2_GeorefAfterAllBatches ==
    /\ [](georef_calls <= 1)
    /\ []((georef_calls = 1) => PastJoin)
    /\ [](PastJoin => /\ Len(futures) = n_batches
                      /\ \A b \in 1..Len(futures) : futures[b].state = "finished")
    /\ [][PastJoin => written' = written]_vars

C2_Witness ==
    /\ pc = "rm_xml"
    /\ georef_calls = 1
    /\ Len(futures) = 3
    /\ written # {}
    /\ \E b \in 1..Len(futures) : futures[b].exc

\* C3: if a batch task fails, predict does not go on to georeference or to the
\* cleanup and does not return normally.
C3_FailurePropagates ==
    (\E b \in 1..Len(futures) : futures[b].exc) =>
        /\ georef_calls = 0
        /\ pc \notin {"rm_xml", "rm_png", "done"}

\* C4 as stated: when predict returns on N valid tiles and an initially empty
\* prediction_path, the directory holds exactly the N files {stem}.png and no
\* .xml file.
C4_Original ==
    (pc = "done" /\ AllTilesValid /\ NoTaskFailed /\ DOMAIN fs0[prediction_path] = {}) =>
        /\ Visible(fs[prediction_path], "png") = {Name(n.stem, "png") : n \in InputNames}
        /\ Cardinality(DOMAIN fs[prediction_path]) = Cardinality(InputNames)
        /\ Visible(fs[prediction_path], "xml") = {}

\* C4 amended: when predict returns on N valid tiles and an initially empty
\* prediction_path, the directory holds no .png file, none of the N files
\* {stem}.png among them, and no .xml file.
C4_NoPngOutputLeft ==
    (pc = "done" /\ AllTilesValid /\ DOMAIN fs0[prediction_path] = {}) =>
        /\ Visible(fs[prediction_path], "png") = {}
        /\ \A n \in InputNames : Name(n.stem, "png") \notin DOMAIN fs[prediction_path]
        /\ Visible(fs[prediction_path], "xml") = {}

C4_Witness ==
    /\ pc = "done"
    /\ AllTilesValid
    /\ DOMAIN fs0[prediction_path] = {}
    /\ Cardinality(InputNames) > BATCH_SIZE
    /\ Cardinality(written) = Cardinality(InputNames)

\* The listing's slice at the 0-based indices [8(b-1), min(8b, N)).
C5_SliceOf(b) ==
    LET N == Len(image_paths)
    IN  SubSeq(image_paths, BATCH_SIZE * (b - 1) + 1,
               IF BATCH_SIZE * b <= N THEN BATCH_SIZE * b ELSE N)

\* C5: the b-th submitted batch is the contiguous slice of the listing at the
\* (0-based) indices [8(b-1), min(8b, N)); it is non-empty and has at most 8
\* paths; once submission is over there are ceil(N/8) batches, and every path
\* of the listing is in the batch and at the offset its index gives.
C5_Partition ==
    LET N == Len(image_paths)
    IN  /\ \A b \in 1..Len(futures) :
            /\ Len(futures[b].batch) >= 1
            /\ Len(futures[b].batch) <= BATCH_SIZE
            /\ Len(futures[b].batch) =
                 IF BATCH_SIZE * b <= N THEN BATCH_SIZE ELSE N - BATCH_SIZE * (b - 1)
            /\ futures[b].batch = C5_SliceOf(b)
        /\ pc \notin {"start", "submit"} =>
            /\ BATCH_SIZE * Len(futures) >= N
            /\ BATCH_SIZE * (Len(futures) - 1) < N \/ Len(futures) = 0
            /\ \A j \in 1..N :
                 futures[((j - 1) \div BATCH_SIZE) + 1].batch[((j - 1) % BATCH_SIZE) + 1]
                    = image_paths[j]
        /\ (pc \notin {"start", "submit"} /\ N = 0) => futures = <<>>

C5_Witness ==
    /\ pc = "wait"
    /\ Len(image_paths) = 2 * BATCH_SIZE + 1
    /\ Len(image_paths) < Cardinality(DOMAIN fs0[input_path])
    /\ Len(futures) = 3
    /\ Len(futures[2].batch) = BATCH_SIZE
    /\ Len(futures[3].batch) = 1

\* The batches run one after the other in submission order, as a pool of one
\* worker runs them.
RECURSIVE C6_SaveFrom(_, _, _, _)
C6_SaveFrom(f, batch, preds, k) ==
    IF k > Len(batch) \/ k > Len(preds) THEN f
    ELSE LET target == MaskPath(prediction_path, k - 1, batch[k])
         IN  IF target.dir = prediction_path /\ target.name \in unwritable THEN f
             ELSE C6_SaveFrom([f EXCEPT ![target.dir] =
                                  WriteFile(@, target.name, Mask(preds[k]))],
                              batch, preds, k + 1)

C6_RunBatch(f, batch) ==
    LET images == [k \in 1..Len(batch) |-> f[batch[k].dir][batch[k].name]]
    IN  IF \E k \in 1..Len(batch) : images[k].kind # "tile" THEN f
        ELSE IF model.raises \/ ~Reshapable(images) THEN f
        ELSE C6_SaveFrom(f, batch, Predictions(model, images), 1)

RECURSIVE C6_RunSerial(_, _)
C6_RunSerial(f, b) ==
    IF b > Len(futures) THEN f
    ELSE C6_RunSerial(C6_RunBatch(f, futures[b].batch), b + 1)

\* C6: the filesystem reached when all batches have completed is the one the
\* batches produce when run one after the other in submission order, whatever
\* the pool size and the interleaving; no two tasks write the same file, and no
\* task reads a file another task writes.
C6_ConcurrencyIndependence ==
    /\ pc = "georef" => fs = C6_RunSerial(fs0, 1)
    /\ Cardinality({Path(w.dir, w.name) : w \in written}) = Cardinality(written)
    /\ \A b \in 1..Len(futures) : \A k \in 1..Len(futures[b].batch) :
          futures[b].batch[k].dir = input_path
    /\ \A w \in written :
          w.dir = input_path =>
             \A b \in 1..Len(futures) :
                b # w.task =>
                   \A k \in 1..Len(futures[b].batch) : futures[b].batch[k].name # w.name

C6_Witness ==
    /\ pc = "georef"
    /\ max_workers > 1
    /\ Len(futures) = 3
    /\ futures[1].idx >= 1
    /\ futures[2].exc /\ futures[2].idx >= 1
    /\ futures[3].idx >= 1

\* C7: a file leaves prediction_path only after georeference has returned
\* successfully; a step that removes a .png file finds no .xml file left; only
\* .xml and .png files are removed; after a failed georeference every file the
\* directory held is still there.
C7_CleanupAfterGeoref ==
    /\ [][Removed(fs[prediction_path], fs'[prediction_path]) # {} =>
            /\ GeorefReturned
            /\ georef_calls = 1
            /\ \A n \in Removed(fs[prediction_path], fs'[prediction_path]) :
                  n.ext \in {"xml", "png"}
            /\ (\E n \in Removed(fs[prediction_path], fs'[prediction_path]) :
                  n.ext = "png") => Visible(fs[prediction_path], "xml") = {}]_vars
    /\ [](pc = "raised" =>
            /\ DOMAIN fs0[prediction_path] \subseteq DOMAIN fs[prediction_path]
            /\ \A w \in written : w.name \in DOMAIN fs[w.dir])

C7_Witness ==
    /\ pc = "done"
    /\ georef_calls = 1
    /\ written # {}
    /\ Removed(fs0[prediction_path], fs[prediction_path]) # {}

\* The 1-based position of the first maximal score.
C8_FirstMaxIndex ==
    CHOOSE k \in 1..Len(scores) :
        /\ \A j \in 1..Len(scores) : scores[j] <= scores[k]
        /\ \A j \in 1..(k - 1) : scores[j] < scores[k]

\* C8: the mask pixel is 1 exactly when the 0-based index of the first maximal
\* score is at least 1, and 0 exactly when it is 0.
C8_Binarization ==
    pixel # -1 =>
        /\ pixel \in {0, 1}
        /\ pixel = 1 <=> C8_FirstMaxIndex - 1 >= 1
        /\ pixel = 0 <=> C8_FirstMaxIndex - 1 = 0

C8_Witness ==
    /\ pixel = 1
    /\ Len(scores) = MaxClasses
    /\ \E j \in 2..Len(scores) : scores[j] = scores[1]

\* C9: when predict returns normally, prediction_path holds no file that the
\* patterns *.png and *.xml match (a name with a leading dot is matched by
\* neither), whatever it held before, and every mask process_batch wrote is gone.
C9_NoPngNoXmlLeft ==
    pc = "done" =>
        /\ Visible(fs[prediction_path], "png") = {}
        /\ Visible(fs[prediction_path], "xml") = {}
        /\ \A w \in written : w.name \notin DOMAIN fs[w.dir]

C9_Witness ==
    /\ pc = "done"
    /\ StaleNames \subseteq DOMAIN fs0[prediction_path]
    /\ written # {}
    /\ \E b \in 1..Len(futures) : futures[b].exc

\* C10: when prediction_path is another directory than input_path, no step of
\* predict creates, overwrites or deletes a file of input_path; when it is
\* input_path itself that does not hold: every mask written replaces an input
\* tile, and a normal return leaves none of the directory's tiles.
C10_InputsUntouched ==
    /\ prediction_path # input_path =>
          /\ fs[input_path] = fs0[input_path]
          /\ \A w \in written : w.dir # input_path
    /\ prediction_path = input_path =>
          /\ \A w \in written :
                /\ w.dir = input_path
                /\ w.name \in InputNames
                /\ w.name \in DOMAIN fs[input_path] =>
                      fs[input_path][w.name].kind \in {"mask", "georaster"}
          /\ pc = "done" => Visible(fs[input_path], "png") = {}

\* With prediction_path = input_path a mask has replaced an input tile while
\* another task still has tiles of that directory to read.
C10_Witness ==
    /\ prediction_path = input_path
    /\ \E w \in written : fs[input_path][w.name].kind = "mask"
    /\ \E b \in 1..Len(futures) :
          /\ futures[b].state \in {"pending", "running"}
          /\ Len(futures[b].images) < Len(futures[b].batch)

====
